---- MODULE Spec2Model ----
(***************************************************************************)
(* Model of the ModsPlatform request/comment backend (src/app.py).         *)
(*                                                                         *)
(* The durable state is the MongoDB collection `requests`; every handler   *)
(* is a sequence of steps whose atomic points are the single-document      *)
(* store calls (find_one, insert_one, update_one, delete_one) and the      *)
(* reads of the wall clock (datetime.utcnow()).  Local computation between *)
(* two such points is folded into the step that precedes it.  The clock    *)
(* never runs backwards; two reads with no tick between them return the    *)
(* same value.                                                             *)
(***************************************************************************)
EXTENDS Integers, Sequences, FiniteSets, TLC

VARIABLES
    store,    \* the collection: _id -> document, NoRecord where there is none
    nextId,   \* the next _id insert_one assigns; an _id is never assigned twice
    now,      \* the wall clock, at the resolution of the stored dates
    webhook,  \* whether DISCORD_WEBHOOK_URL is set
    pc,       \* each worker's place in the handler it runs
    loc,      \* each worker's request arguments and handler locals
    resp,     \* each worker's response, while it is being returned
    bumped    \* history: the record an add-comment has just written while it
              \* had the oldest lastActivity; 0 after any other store write

vars == <<store, nextId, now, webhook, pc, loc, resp, bumped>>

----------------------------------------------------------------------------
(* Bounds of the model *)

MaxWorkers == 2
MaxIds == 2
MaxClock == 2
MaxComments == 2
SeqIds == 1
ConcIds == 1
ConcClock == 1

Workers == 1..MaxWorkers
Ids == 1..MaxIds

----------------------------------------------------------------------------
(* Configuration: the role lists *)

ADMINS == {"1329817290052734980"}
MANAGERS == {"850344514605416468"}

Admin == "1329817290052734980"
Manager == "850344514605416468"
U1 == "u1"

(* An identifier that bson.ObjectId() refuses *)
Malformed == 0

(* A stored document that does not exist: what find_one returns as None *)
NoRecord == [gameName |-> "<none>"]

(* dict.get(key, default) on a JSON object, modelled as a function whose
   domain is the set of keys present *)
Get(data, k, default) == IF k \in DOMAIN data THEN data[k] ELSE default

(* str.strip() on a text given as a sequence of characters *)
IsSpace(c) == c = " "

RECURSIVE LStrip(_)
LStrip(s) == IF s = <<>> THEN s
             ELSE IF IsSpace(Head(s)) THEN LStrip(Tail(s)) ELSE s

RECURSIVE RStrip(_)
RStrip(s) == IF s = <<>> THEN s
             ELSE IF IsSpace(s[Len(s)]) THEN RStrip(SubSeq(s, 1, Len(s) - 1))
             ELSE s

Strip(s) == RStrip(LStrip(s))

----------------------------------------------------------------------------
(* Inputs drawn by the handlers *)

Actors == {U1, Manager, Admin}

(* Request bodies carrying currentUserId, or not carrying it *)
ActorBodies(actors) ==
    { [currentUserId |-> a] : a \in actors } \cup { [other |-> "x"] }

CommentBodies(actors, texts) ==
    { [currentUserId |-> a, comment |-> t] : a \in actors, t \in texts }
    \cup { [currentUserId |-> a] : a \in actors }

PatchBodies(actors, patches) ==
    { [k \in DOMAIN p \cup {"currentUserId"} |->
          IF k = "currentUserId" THEN a ELSE p[k]] : p \in patches, a \in actors }

(* The inputs of the sequential specification: one record, every role *)
SeqInputs ==
    [ creates  |-> { [gameName |-> "g1", createdBy |-> U1],
                     [gameName |-> "g1", createdBy |-> Admin],
                     [gameName |-> "g1"],
                     [gameName |-> "", createdBy |-> U1],
                     [createdBy |-> U1] },
      patches  |-> PatchBodies(Actors, { [gameName |-> "g2"],
                                         [details |-> "d2"],
                                         [gameName |-> "", iconUrl |-> "i2"] }),
      actors   |-> ActorBodies(Actors),
      comments |-> CommentBodies(Actors, { <<"a">>, <<" ", "a", " ">>, <<" ">> }),
      ids      |-> 0..MaxIds,
      indexes  |-> (-1)..MaxComments,
      cap      |-> SeqIds,
      clock    |-> MaxClock ]

(* The inputs of the concurrent specification: one record, two workers *)
ConcInputs ==
    [ creates  |-> { [gameName |-> "g1", createdBy |-> U1],
                     [createdBy |-> U1] },
      patches  |-> PatchBodies({U1, Admin}, { [gameName |-> "g2"],
                                              [details |-> "d2"] }),
      actors   |-> { [currentUserId |-> a] : a \in {U1, Admin} },
      comments |-> { [currentUserId |-> a, comment |-> <<"a">>] : a \in {U1, Admin} },
      ids      |-> 1..ConcIds,
      indexes  |-> 0..MaxComments,
      cap      |-> ConcIds,
      clock    |-> ConcClock ]

(* The inputs of the listing specification: several records, one actor *)
ListInputs ==
    [ creates  |-> { [gameName |-> "g1", createdBy |-> U1],
                     [createdBy |-> U1] },
      patches  |-> PatchBodies({U1}, { [details |-> "d2"] }),
      actors   |-> ActorBodies({U1}),
      comments |-> CommentBodies({U1}, { <<"a">> }),
      ids      |-> 0..MaxIds,
      indexes  |-> 0..1,
      cap      |-> MaxIds,
      clock    |-> MaxClock ]

(* The inputs of the fair specification: one record, one actor *)
LiveInputs ==
    [ creates  |-> { [gameName |-> "g1", createdBy |-> U1] },
      patches  |-> PatchBodies({U1}, { [details |-> "d2"] }),
      actors   |-> { [currentUserId |-> U1] },
      comments |-> { [currentUserId |-> U1, comment |-> <<"a">>] },
      ids      |-> 1..SeqIds,
      indexes  |-> 0..1,
      cap      |-> SeqIds,
      clock    |-> ConcClock ]

----------------------------------------------------------------------------
(* Values *)

NoEntry == [userId |-> "", comment |-> <<>>, timestamp |-> 0]

NoMeta == [gameName |-> "", latestVersion |-> "", details |-> "", iconUrl |-> ""]

(* A worker's request arguments and handler locals *)
NoLoc == [op |-> "none", id |-> 0, user |-> "", index |-> 0, entry |-> NoEntry,
          meta |-> NoMeta, createdBy |-> "", t0 |-> 0]

NoResp == [status |-> "none", id |-> 0, docs |-> <<>>]

Exists(i) == i \in Ids /\ store[i] # NoRecord

ExistingIds == { i \in Ids : store[i] # NoRecord }

(* The document as the handlers return it: the stored fields and its _id *)
Doc(i) == [id |-> i, doc |-> store[i]]

----------------------------------------------------------------------------
(* Authorization checks, as the handlers write them *)

(* Mutant: admins may edit too *)
CanEditOrAdmin(req, current_user) ==
    req.createdBy = current_user \/ current_user \in ADMINS

CanEdit(req, current_user) == req.createdBy = current_user

(* Mutant: managers count as admins *)
CanDeleteRequestOrManager(req, current_user) ==
    ~(req.createdBy # current_user /\ current_user \notin ADMINS \cup MANAGERS)

CanDeleteRequest(req, current_user) ==
    ~(req.createdBy # current_user /\ current_user \notin ADMINS)

(* Mutant: the manager list is not consulted *)
CanCommentNoManager(req, current_user) ==
    ~(req.createdBy # current_user /\ current_user \notin ADMINS)

CanComment(req, current_user) ==
    ~(req.createdBy # current_user
         /\ current_user \notin ADMINS
         /\ current_user \notin MANAGERS)

(* Mutant: managers may delete any comment *)
CanDeleteCommentOrManager(owner, current_user) ==
    ~(owner # current_user
         /\ current_user \notin ADMINS
         /\ current_user \notin MANAGERS)

CanDeleteComment(owner, current_user) ==
    ~(owner # current_user /\ current_user \notin ADMINS)

----------------------------------------------------------------------------
(* Store operators *)

(* datetime.utcnow() called by a handler that last looked at the clock when
   it showed t: the call happens at some moment between then and the store
   write that follows it, so it returns any value the clock has had since *)
UtcNow(t) == t..now

(* Mutant: the new entry is put first *)
PushFront(comments, entry) == <<entry>> \o comments

(* $push: append to the array *)
Push(comments, entry) == Append(comments, entry)

(* $pull with a document: every array element equal to it is removed *)
Pull(comments, comment) == SelectSeq(comments, LAMBDA e : e # comment)

(* Mutant: sort("lastActivity", 1) *)
SortedAsc(s) ==
    \A j, k \in DOMAIN s : j < k => store[s[j]].lastActivity <= store[s[k]].lastActivity

(* find().sort("lastActivity", -1): every stored document, by lastActivity
   descending; the order of documents with equal keys is not determined *)
SortedDesc(s) ==
    \A j, k \in DOMAIN s : j < k => store[s[j]].lastActivity >= store[s[k]].lastActivity

FindSorted ==
    { s \in [1..Cardinality(ExistingIds) -> ExistingIds] :
         /\ \A j, k \in DOMAIN s : j # k => s[j] # s[k]
         /\ SortedDesc(s) }

(* The record was, among at least two, one with the oldest lastActivity *)
IsOldest(i) ==
    /\ Exists(i)
    /\ Cardinality(ExistingIds) >= 2
    /\ \A j \in ExistingIds : store[i].lastActivity <= store[j].lastActivity

InFlight(ops, i) ==
    Cardinality({ v \in Workers : pc[v] \in ops /\ loc[v].id = i })

----------------------------------------------------------------------------
(* Steps shared by the handlers *)

(* A handler's locals once it has made its last store call: only the
   request's arguments are still used *)
Args(l) == [NoLoc EXCEPT !.op = l.op, !.id = l.id, !.user = l.user, !.index = l.index]

(* return jsonify(...), <status> *)
Finish(w, status, id, docs) ==
    /\ pc' = [pc EXCEPT ![w] = "respond"]
    /\ resp' = [resp EXCEPT ![w] = [status |-> status, id |-> id, docs |-> docs]]

(* A handler that returns before any store write *)
Reject(w, l, status) ==
    /\ Finish(w, status, 0, <<>>)
    /\ loc' = [loc EXCEPT ![w] = Args(l)]
    /\ UNCHANGED <<store, nextId, now, webhook, bumped>>

Init ==
    /\ store = [i \in Ids |-> NoRecord]
    /\ nextId = 1
    /\ now = 0
    /\ webhook \in BOOLEAN
    /\ pc = [w \in Workers |-> "idle"]
    /\ loc = [w \in Workers |-> NoLoc]
    /\ resp = [w \in Workers |-> NoResp]
    /\ bumped = 0

(* The wall clock advances *)
Tick(max) ==
    /\ now < max
    /\ now' = now + 1
    /\ UNCHANGED <<store, nextId, webhook, pc, loc, resp, bumped>>

(* The response has been delivered; the worker takes the next request *)
Return(w) ==
    /\ pc[w] = "respond"
    /\ pc' = [pc EXCEPT ![w] = "idle"]
    /\ loc' = [loc EXCEPT ![w] = NoLoc]
    /\ resp' = [resp EXCEPT ![w] = NoResp]
    /\ UNCHANGED <<store, nextId, now, webhook, bumped>>

----------------------------------------------------------------------------
(* POST /request *)

(* Validation, then the new document up to its "timestamp" *)
CreateRequestBegin(w, data, cap) ==
    /\ pc[w] = "idle"
    /\ LET l == [NoLoc EXCEPT !.op = "create"]
       IN IF Get(data, "gameName", "") = ""
          THEN Reject(w, l, "ValidationError")
          ELSE /\ nextId + InFlight({"c_insert"}, 0) <= cap
               /\ loc' = [loc EXCEPT ![w] =
                     [l EXCEPT !.meta = [gameName |-> data["gameName"],
                                         latestVersion |-> Get(data, "latestVersion", ""),
                                         details |-> Get(data, "details", ""),
                                         iconUrl |-> Get(data, "iconUrl", "")],
                               !.createdBy = Get(data, "createdBy", "anonymous"),
                               !.t0 = now]]
               /\ pc' = [pc EXCEPT ![w] = "c_insert"]
               /\ UNCHANGED <<store, nextId, now, webhook, resp, bumped>>

NewRequest(l, timestamp, lastActivity) ==
    [gameName |-> l.meta.gameName,
     latestVersion |-> l.meta.latestVersion,
     details |-> l.meta.details,
     iconUrl |-> l.meta.iconUrl,
     createdBy |-> l.createdBy,
     comments |-> <<>>,
     timestamp |-> timestamp,
     lastActivity |-> lastActivity]

(* "timestamp" and "lastActivity": two calls of datetime.utcnow(); then
   requests_collection.insert_one(new_request) *)
CreateRequestInsert(w) ==
    /\ pc[w] = "c_insert"
    /\ \E timestamp \in UtcNow(loc[w].t0) : \E lastActivity \in UtcNow(timestamp) :
          store' = [store EXCEPT ![nextId] = NewRequest(loc[w], timestamp, lastActivity)]
    /\ nextId' = nextId + 1
    /\ loc' = [loc EXCEPT ![w] = [Args(@) EXCEPT !.id = nextId]]
    /\ pc' = [pc EXCEPT ![w] = "notify"]
    /\ bumped' = 0
    /\ UNCHANGED <<now, webhook, resp>>

----------------------------------------------------------------------------
(* GET /requests and GET /request/<id> *)

GetRequests(w) ==
    /\ pc[w] = "idle"
    /\ \E s \in FindSorted :
          Finish(w, "OK", 0, [j \in DOMAIN s |-> Doc(s[j])])
    /\ loc' = [loc EXCEPT ![w] = [NoLoc EXCEPT !.op = "list"]]
    /\ UNCHANGED <<store, nextId, now, webhook, bumped>>

GetRequest(w, id) ==
    /\ pc[w] = "idle"
    /\ LET l == [NoLoc EXCEPT !.op = "get", !.id = id]
       IN IF id = Malformed THEN Reject(w, l, "ServerError")
          ELSE IF ~Exists(id) THEN Reject(w, l, "NotFound")
          ELSE /\ Finish(w, "OK", id, <<Doc(id)>>)
               /\ loc' = [loc EXCEPT ![w] = l]
               /\ UNCHANGED <<store, nextId, now, webhook, bumped>>

----------------------------------------------------------------------------
(* PUT /request/<id> *)

(* Mutant: the activity time is set before the creator check *)
UpdateRequestBeginTouching(w, id, data) ==
    /\ pc[w] = "idle"
    /\ LET current_user == Get(data, "currentUserId", "")
           l == [NoLoc EXCEPT !.op = "update", !.id = id, !.user = current_user]
       IN IF id = Malformed THEN Reject(w, l, "ServerError")
          ELSE IF ~Exists(id) THEN Reject(w, l, "NotFound")
          ELSE IF ~CanEdit(store[id], current_user)
               THEN /\ Finish(w, "Forbidden", 0, <<>>)
                    /\ loc' = [loc EXCEPT ![w] = Args(l)]
                    /\ store' = [store EXCEPT ![id].lastActivity = now]
                    /\ UNCHANGED <<nextId, now, webhook, bumped>>
          ELSE /\ loc' = [loc EXCEPT ![w] =
                     [l EXCEPT !.meta =
                        [gameName |-> Get(data, "gameName", store[id].gameName),
                         latestVersion |-> Get(data, "latestVersion", store[id].latestVersion),
                         details |-> Get(data, "details", store[id].details),
                         iconUrl |-> Get(data, "iconUrl", store[id].iconUrl)],
                              !.t0 = now]]
               /\ pc' = [pc EXCEPT ![w] = "u_write"]
               /\ UNCHANGED <<store, nextId, now, webhook, resp, bumped>>

(* find_one, the creator check, and update_data up to its "timestamp" *)
UpdateRequestBegin(w, id, data) ==
    /\ pc[w] = "idle"
    /\ LET current_user == Get(data, "currentUserId", "")
           l == [NoLoc EXCEPT !.op = "update", !.id = id, !.user = current_user]
       IN IF id = Malformed THEN Reject(w, l, "ServerError")
          ELSE IF ~Exists(id) THEN Reject(w, l, "NotFound")
          ELSE IF ~CanEdit(store[id], current_user) THEN Reject(w, l, "Forbidden")
          ELSE /\ loc' = [loc EXCEPT ![w] =
                     [l EXCEPT !.meta =
                        [gameName |-> Get(data, "gameName", store[id].gameName),
                         latestVersion |-> Get(data, "latestVersion", store[id].latestVersion),
                         details |-> Get(data, "details", store[id].details),
                         iconUrl |-> Get(data, "iconUrl", store[id].iconUrl)],
                              !.t0 = now]]
               /\ pc' = [pc EXCEPT ![w] = "u_write"]
               /\ UNCHANGED <<store, nextId, now, webhook, resp, bumped>>

(* "timestamp" and "lastActivity": two calls of datetime.utcnow(); then
   update_one({"_id": id}, {"$set": update_data}): no document, no change *)
UpdateRequestWrite(w) ==
    /\ pc[w] = "u_write"
    /\ \E timestamp \in UtcNow(loc[w].t0) : \E lastActivity \in UtcNow(timestamp) :
       LET id == loc[w].id
       IN store' = IF Exists(id)
                   THEN [store EXCEPT ![id] =
                           [@ EXCEPT !.gameName = loc[w].meta.gameName,
                                     !.latestVersion = loc[w].meta.latestVersion,
                                     !.details = loc[w].meta.details,
                                     !.iconUrl = loc[w].meta.iconUrl,
                                     !.timestamp = timestamp,
                                     !.lastActivity = lastActivity]]
                   ELSE store
    /\ Finish(w, "OK", 0, <<>>)
    /\ loc' = [loc EXCEPT ![w] = Args(@)]
    /\ bumped' = 0
    /\ UNCHANGED <<nextId, now, webhook>>

----------------------------------------------------------------------------
(* DELETE /request/<id> *)

DeleteRequestBegin(w, id, data) ==
    /\ pc[w] = "idle"
    /\ LET current_user == Get(data, "currentUserId", "")
           l == [NoLoc EXCEPT !.op = "delete", !.id = id, !.user = current_user]
       IN IF id = Malformed THEN Reject(w, l, "ServerError")
          ELSE IF ~Exists(id) THEN Reject(w, l, "NotFound")
          ELSE IF ~CanDeleteRequest(store[id], current_user)
               THEN Reject(w, l, "Forbidden")
          ELSE /\ loc' = [loc EXCEPT ![w] = l]
               /\ pc' = [pc EXCEPT ![w] = "d_delete"]
               /\ UNCHANGED <<store, nextId, now, webhook, resp, bumped>>

(* delete_one({"_id": id}) *)
DeleteRequestDelete(w) ==
    /\ pc[w] = "d_delete"
    /\ store' = [store EXCEPT ![loc[w].id] = NoRecord]
    /\ Finish(w, "OK", 0, <<>>)
    /\ loc' = [loc EXCEPT ![w] = Args(@)]
    /\ bumped' = 0
    /\ UNCHANGED <<nextId, now, webhook>>

----------------------------------------------------------------------------
(* POST /request/<id>/comment *)

(* Mutant: the record is looked up and the role checked before the text *)
AddCommentBeginLoadFirst(w, id, data) ==
    /\ pc[w] = "idle"
    /\ LET current_user == Get(data, "currentUserId", "")
           comment_text == Strip(Get(data, "comment", <<>>))
           l == [NoLoc EXCEPT !.op = "add_comment", !.id = id, !.user = current_user,
                              !.entry = [userId |-> current_user,
                                         comment |-> comment_text,
                                         timestamp |-> 0]]
       IN IF id = Malformed THEN Reject(w, l, "ServerError")
          ELSE IF ~Exists(id) THEN Reject(w, l, "NotFound")
          ELSE IF ~CanComment(store[id], current_user) THEN Reject(w, l, "Forbidden")
          ELSE IF comment_text = <<>> THEN Reject(w, l, "ValidationError")
          ELSE /\ Len(store[id].comments)
                     + InFlight({"a_write"}, id) < MaxComments
               /\ loc' = [loc EXCEPT ![w] = [l EXCEPT !.t0 = now]]
               /\ pc' = [pc EXCEPT ![w] = "a_write"]
               /\ UNCHANGED <<store, nextId, now, webhook, resp, bumped>>

(* The text check, find_one and the role check *)
AddCommentBegin(w, id, data) ==
    /\ pc[w] = "idle"
    /\ LET current_user == Get(data, "currentUserId", "")
           comment_text == Strip(Get(data, "comment", <<>>))
           l == [NoLoc EXCEPT !.op = "add_comment", !.id = id, !.user = current_user,
                              !.entry = [userId |-> current_user,
                                         comment |-> comment_text,
                                         timestamp |-> 0]]
       IN IF comment_text = <<>> THEN Reject(w, l, "ValidationError")
          ELSE IF id = Malformed THEN Reject(w, l, "ServerError")
          ELSE IF ~Exists(id) THEN Reject(w, l, "NotFound")
          ELSE IF ~CanComment(store[id], current_user) THEN Reject(w, l, "Forbidden")
          ELSE /\ Len(store[id].comments)
                     + InFlight({"a_write"}, id) < MaxComments
               /\ loc' = [loc EXCEPT ![w] = [l EXCEPT !.t0 = now]]
               /\ pc' = [pc EXCEPT ![w] = "a_write"]
               /\ UNCHANGED <<store, nextId, now, webhook, resp, bumped>>

(* comment_entry "timestamp" and "lastActivity": two calls of
   datetime.utcnow(); then update_one({"_id": id}, {"$push": ..., "$set": ...}) *)
AddCommentWrite(w) ==
    /\ pc[w] = "a_write"
    /\ LET id == loc[w].id
       IN /\ \E timestamp \in UtcNow(loc[w].t0) : \E lastActivity \in UtcNow(timestamp) :
                store' = IF Exists(id)
                         THEN [store EXCEPT ![id] =
                                 [@ EXCEPT !.comments =
                                              Push(@, [loc[w].entry EXCEPT
                                                          !.timestamp = timestamp]),
                                           !.lastActivity = lastActivity]]
                         ELSE store
          /\ bumped' = IF IsOldest(id) THEN id ELSE 0
    /\ pc' = [pc EXCEPT ![w] = "notify"]
    /\ loc' = [loc EXCEPT ![w] = Args(@)]
    /\ UNCHANGED <<nextId, now, webhook, resp>>

----------------------------------------------------------------------------
(* DELETE /request/<id>/comment/<index> *)

(* find_one, the bounds check and the owner check *)
DeleteCommentBegin(w, id, index, data) ==
    /\ pc[w] = "idle"
    /\ LET current_user == Get(data, "currentUserId", "")
           l == [NoLoc EXCEPT !.op = "delete_comment", !.id = id,
                              !.user = current_user, !.index = index]
       IN IF id = Malformed THEN Reject(w, l, "ServerError")
          ELSE IF ~Exists(id) THEN Reject(w, l, "NotFound")
          ELSE LET comments == store[id].comments
               IN IF index < 0 \/ index >= Len(comments)
                  THEN Reject(w, l, "OutOfRange")
                  ELSE LET comment == comments[index + 1]
                           owner == comment.userId
                       IN IF ~CanDeleteComment(owner, current_user)
                          THEN Reject(w, l, "Forbidden")
                          ELSE /\ loc' = [loc EXCEPT ![w] =
                                     [l EXCEPT !.entry = comment, !.t0 = now]]
                               /\ pc' = [pc EXCEPT ![w] = "x_write"]
                               /\ UNCHANGED <<store, nextId, now, webhook, resp, bumped>>

(* Mutant: the entry at the validated index is removed, whatever it is *)
DeleteCommentWriteByIndex(w) ==
    /\ pc[w] = "x_write"
    /\ \E lastActivity \in UtcNow(loc[w].t0) :
       LET id == loc[w].id
           i == loc[w].index
       IN store' = IF Exists(id)
                   THEN [store EXCEPT ![id] =
                           [@ EXCEPT !.comments =
                                        IF i < Len(@)
                                        THEN SubSeq(@, 1, i) \o SubSeq(@, i + 2, Len(@))
                                        ELSE @,
                                     !.lastActivity = lastActivity]]
                   ELSE store
    /\ bumped' = 0
    /\ pc' = [pc EXCEPT ![w] = "notify"]
    /\ loc' = [loc EXCEPT ![w] = Args(@)]
    /\ UNCHANGED <<nextId, now, webhook, resp>>

(* "lastActivity": datetime.utcnow(); then
   update_one({"_id": id}, {"$pull": {"comments": comment}, "$set": ...}) *)
DeleteCommentWrite(w) ==
    /\ pc[w] = "x_write"
    /\ \E lastActivity \in UtcNow(loc[w].t0) :
       LET id == loc[w].id
       IN store' = IF Exists(id)
                   THEN [store EXCEPT ![id] =
                           [@ EXCEPT !.comments = Pull(@, loc[w].entry),
                                     !.lastActivity = lastActivity]]
                   ELSE store
    /\ bumped' = 0
    /\ pc' = [pc EXCEPT ![w] = "notify"]
    /\ loc' = [loc EXCEPT ![w] = Args(@)]
    /\ UNCHANGED <<nextId, now, webhook, resp>>

----------------------------------------------------------------------------
(* send_discord_notification, and the success response that follows it *)

Success(w) ==
    IF loc[w].op = "create"
    THEN Finish(w, "Created", loc[w].id, <<>>)
    ELSE Finish(w, "OK", 0, <<>>)

(* No webhook configured: return at once.  Otherwise the POST is sent and
   the handler waits for it. *)
SendDiscordNotification(w) ==
    /\ pc[w] = "notify"
    /\ IF ~webhook
       THEN Success(w)
       ELSE /\ pc' = [pc EXCEPT ![w] = "post"]
            /\ UNCHANGED resp
    /\ UNCHANGED <<store, nextId, now, webhook, loc, bumped>>

(* pyrequests.post returns *)
PostReturns(w) ==
    /\ pc[w] = "post"
    /\ Success(w)
    /\ UNCHANGED <<store, nextId, now, webhook, loc, bumped>>

(* Mutant: the exception reaches the handler's except clause *)
PostRaisesSurfaced(w) ==
    /\ pc[w] = "post"
    /\ Finish(w, "ServerError", 0, <<>>)
    /\ UNCHANGED <<store, nextId, now, webhook, loc, bumped>>

(* pyrequests.post raises: the exception is printed and dropped *)
PostRaises(w) ==
    /\ pc[w] = "post"
    /\ Success(w)
    /\ UNCHANGED <<store, nextId, now, webhook, loc, bumped>>

----------------------------------------------------------------------------
(* The next-state relation *)

Begin(w, in) ==
    \/ \E data \in in.creates : CreateRequestBegin(w, data, in.cap)
    \/ GetRequests(w)
    \/ \E id \in in.ids : GetRequest(w, id)
    \/ \E id \in in.ids, data \in in.patches : UpdateRequestBegin(w, id, data)
    \/ \E id \in in.ids, data \in in.actors : DeleteRequestBegin(w, id, data)
    \/ \E id \in in.ids, data \in in.comments : AddCommentBegin(w, id, data)
    \/ \E id \in in.ids, index \in in.indexes, data \in in.actors :
          DeleteCommentBegin(w, id, index, data)

Continue(w) ==
    \/ CreateRequestInsert(w)
    \/ UpdateRequestWrite(w)
    \/ DeleteRequestDelete(w)
    \/ AddCommentWrite(w)
    \/ DeleteCommentWrite(w)
    \/ SendDiscordNotification(w)
    \/ PostReturns(w)
    \/ PostRaises(w)
    \/ Return(w)

(* Handlers served concurrently by several workers *)
Next ==
    \/ Tick(ConcInputs.clock)
    \/ \E w \in Workers : Begin(w, ConcInputs) \/ Continue(w)

Spec == Init /\ [][Next]_vars

(* One request at a time: a handler starts only when no other is running *)
NextSeq ==
    \/ Tick(SeqInputs.clock)
    \/ \E w \in {1} : Begin(w, SeqInputs) \/ Continue(w)

SpecSeq == Init /\ [][NextSeq]_vars

(* One request at a time, over several records *)
NextList ==
    \/ Tick(ListInputs.clock)
    \/ \E w \in {1} : Begin(w, ListInputs) \/ Continue(w)

SpecList == Init /\ [][NextList]_vars

(* The steps a worker takes by running the handler's code: all of them but
   the two by which the webhook's server answers the POST *)
Runs(w) ==
    \/ CreateRequestInsert(w)
    \/ UpdateRequestWrite(w)
    \/ DeleteRequestDelete(w)
    \/ AddCommentWrite(w)
    \/ DeleteCommentWrite(w)
    \/ SendDiscordNotification(w)
    \/ Return(w)

(* One request at a time.  A worker keeps running its handler's code; the
   POST is sent without a timeout, so nothing makes its answer arrive. *)
NextLive ==
    \/ Tick(LiveInputs.clock)
    \/ \E w \in {1} : Begin(w, LiveInputs) \/ Continue(w)

SpecLive == Init /\ [][NextLive]_vars /\ \A w \in {1} : WF_vars(Runs(w))

----------------------------------------------------------------------------
(* Vocabulary of the properties *)

Denials == {"ValidationError", "NotFound", "OutOfRange", "Forbidden"}

(* The sequence without its entry at the 0-based position i *)
RemoveAt(s, i) == SubSeq(s, 1, i) \o SubSeq(s, i + 2, Len(s))

User(data) == Get(data, "currentUserId", "")

(* Worker w takes the step that starts a handler, and is answered at once *)
Answered(w, status) ==
    pc[w] = "idle" /\ pc'[w] = "respond" /\ resp'[w].status = status

(* Worker w takes the store write of the handler whose write is at `at` *)
Writes(w, at) == pc[w] = at /\ pc'[w] # at

(* An id that was assigned and whose record has been deleted *)
Deleted(id) == id \in Ids /\ id < nextId /\ store[id] = NoRecord

----------------------------------------------------------------------------
(* C1: delete-comment at index i on a ledger of N comments answers
   OutOfRange when i < 0 or i >= N; when it goes through, the ledger is the
   old one without its entry at i: N-1 entries, all others in their order,
   also when other entries are equal to the one removed. *)
C1_DeleteCommentRemovesOnlyIndex ==
    [][\A w \in Workers :
         /\ \A id \in Ids, index \in SeqInputs.indexes, data \in SeqInputs.actors :
               ( /\ DeleteCommentBegin(w, id, index, data)
                 /\ Exists(id)
                 /\ (index < 0 \/ index >= Len(store[id].comments)) )
               => Answered(w, "OutOfRange")
         /\ (Writes(w, "x_write") /\ Exists(loc[w].id))
               => store'[loc[w].id].comments
                     = RemoveAt(store[loc[w].id].comments, loc[w].index)
      ]_vars

(* C1, the part the code keeps: the removal is by position whenever no other
   entry of the ledger equals the one at the index *)
C1_RemovesIndexWithoutDuplicates ==
    [][\A w \in Workers :
         ( /\ Writes(w, "x_write")
           /\ Exists(loc[w].id)
           /\ \A j \in DOMAIN store[loc[w].id].comments :
                 j # loc[w].index + 1
                 => store[loc[w].id].comments[j] # loc[w].entry )
         => store'[loc[w].id].comments
               = RemoveAt(store[loc[w].id].comments, loc[w].index)
      ]_vars

----------------------------------------------------------------------------
(* C2: an operation that ends in ValidationError, NotFound, OutOfRange or
   Forbidden leaves the store as it was: no record inserted or removed, no
   field of any record changed; and a handler that has passed its checks
   never ends in one of these. *)
C2_RejectedLeavesStoreUnchanged ==
    [][\A w \in Workers :
         /\ (pc'[w] = "respond" /\ pc[w] # "respond" /\ resp'[w].status \in Denials)
               => (pc[w] = "idle" /\ store' = store /\ nextId' = nextId)
      ]_vars

C2_Witness ==
    /\ pc[1] = "respond"
    /\ loc[1].op = "update"
    /\ loc[1].id = 1
    /\ resp[1].status = "Forbidden"
    /\ Exists(1)
    /\ Len(store[1].comments) = 1
    /\ store[1].lastActivity < now

----------------------------------------------------------------------------
(* C3: under any interleaving of the handlers, a record's lastActivity never
   decreases from one state to the next and is never below its timestamp. *)
C3_LastActivityMonotone ==
    [][\A id \in Ids :
         (store'[id] # NoRecord)
         => /\ store'[id].lastActivity >= store'[id].timestamp
            /\ (store[id] # NoRecord
                  => store'[id].lastActivity >= store[id].lastActivity)
      ]_vars

----------------------------------------------------------------------------
(* C4: delete-comment at a valid index goes through only for the author of
   the comment at that index or an admin; any other actor, a manager or the
   request's creator included, is answered Forbidden and the ledger keeps
   its length. *)
C4_DeleteCommentAuthorOrAdmin ==
    [][\A w \in Workers :
         /\ \A id \in Ids, index \in SeqInputs.indexes, data \in SeqInputs.actors :
               ( /\ DeleteCommentBegin(w, id, index, data)
                 /\ Exists(id)
                 /\ index >= 0 /\ index < Len(store[id].comments) )
               => IF \/ User(data) = store[id].comments[index + 1].userId
                     \/ User(data) \in ADMINS
                  THEN pc'[w] = "x_write" /\ loc'[w].user = User(data)
                  ELSE /\ Answered(w, "Forbidden")
                       /\ Len(store'[id].comments) = Len(store[id].comments)
         /\ \A id \in Ids :
               (Exists(id) /\ store'[id] # NoRecord
                  /\ Len(store'[id].comments) < Len(store[id].comments))
               => \E v \in Workers :
                     /\ Writes(v, "x_write")
                     /\ loc[v].id = id
                     /\ (loc[v].user = loc[v].entry.userId \/ loc[v].user \in ADMINS)
      ]_vars

C4_Witness ==
    /\ pc[1] = "respond"
    /\ loc[1].op = "delete_comment"
    /\ loc[1].id = 1
    /\ loc[1].index = 1
    /\ loc[1].user = Manager
    /\ resp[1].status = "Forbidden"
    /\ Exists(1)
    /\ Len(store[1].comments) = 2
    /\ store[1].comments[1].userId = Manager
    /\ store[1].comments[2].userId = U1
    /\ store[1].createdBy = U1

----------------------------------------------------------------------------
(* C5: delete-request on an existing record goes through for its creator or
   an admin and is answered Forbidden for anyone else; once it has gone
   through the record is gone for good.  The original statement has every
   later operation on that id answered NotFound. *)
DeleteRequestDecides(w) ==
    /\ \A id \in Ids, data \in SeqInputs.actors :
          (DeleteRequestBegin(w, id, data) /\ Exists(id))
          => IF User(data) = store[id].createdBy \/ User(data) \in ADMINS
             THEN pc'[w] = "d_delete" /\ loc'[w].id = id
             ELSE Answered(w, "Forbidden") /\ store' = store
    /\ Writes(w, "d_delete")
          => (store'[loc[w].id] = NoRecord /\ resp'[w].status = "OK")
    /\ \A id \in Ids : Deleted(id) => store'[id] = NoRecord

(* The answers to the operations other than add-comment on a deleted id *)
DeletedIsNotFound(w, id) ==
    /\ GetRequest(w, id) => Answered(w, "NotFound")
    /\ \A data \in SeqInputs.patches :
          UpdateRequestBegin(w, id, data) => Answered(w, "NotFound")
    /\ \A data \in SeqInputs.actors :
          DeleteRequestBegin(w, id, data) => Answered(w, "NotFound")
    /\ \A index \in SeqInputs.indexes, data \in SeqInputs.actors :
          DeleteCommentBegin(w, id, index, data) => Answered(w, "NotFound")

C5_Original ==
    [][\A w \in Workers :
         /\ DeleteRequestDecides(w)
         /\ \A id \in Ids :
               Deleted(id)
               => /\ DeletedIsNotFound(w, id)
                  /\ \A data \in SeqInputs.comments :
                        AddCommentBegin(w, id, data) => Answered(w, "NotFound")
      ]_vars

(* C5 as amended: every later operation on that id is answered NotFound,
   except an add-comment whose text is empty after trimming, which is
   answered ValidationError before the record is looked up. *)
C5_DeleteRequestCreatorOrAdmin ==
    [][\A w \in Workers :
         /\ DeleteRequestDecides(w)
         /\ \A id \in Ids :
               Deleted(id)
               => /\ DeletedIsNotFound(w, id)
                  /\ \A data \in SeqInputs.comments :
                        AddCommentBegin(w, id, data)
                        => IF Strip(Get(data, "comment", <<>>)) = <<>>
                           THEN Answered(w, "ValidationError")
                           ELSE Answered(w, "NotFound")
      ]_vars

C5_Witness ==
    /\ Deleted(1)
    /\ pc[1] = "respond"
    /\ loc[1].op = "add_comment"
    /\ loc[1].id = 1
    /\ loc[1].user = Admin
    /\ resp[1].status = "NotFound"

----------------------------------------------------------------------------
(* C6: edit-metadata on an existing record is applied only when the actor is
   the record's createdBy; every other actor, admins and managers included,
   is answered Forbidden. *)
Meta(r) == <<r.gameName, r.latestVersion, r.details, r.iconUrl, r.timestamp>>

C6_EditCreatorOnly ==
    [][\A w \in Workers :
         /\ \A id \in Ids, data \in SeqInputs.patches :
               (UpdateRequestBegin(w, id, data) /\ Exists(id))
               => IF User(data) = store[id].createdBy
                  THEN pc'[w] = "u_write" /\ loc'[w].user = User(data)
                  ELSE Answered(w, "Forbidden") /\ store' = store
         /\ \A id \in Ids :
               (Exists(id) /\ store'[id] # NoRecord /\ Meta(store'[id]) # Meta(store[id]))
               => \E v \in Workers :
                     /\ Writes(v, "u_write")
                     /\ loc[v].id = id
                     /\ loc[v].user = store[id].createdBy
      ]_vars

C6_Witness ==
    /\ pc[1] = "respond"
    /\ loc[1].op = "update"
    /\ loc[1].id = 1
    /\ loc[1].user = Admin
    /\ resp[1].status = "Forbidden"
    /\ Exists(1)
    /\ store[1].createdBy = U1
    /\ store[1].gameName = "g2"

----------------------------------------------------------------------------
(* C7: add-comment with a text that is not empty after trimming, on an
   existing record, is allowed exactly when the actor is the record's
   createdBy, a manager or an admin; any other actor is answered Forbidden
   and nothing is appended. *)
C7_AddCommentRoles ==
    [][\A w \in Workers :
         /\ \A id \in Ids, data \in SeqInputs.comments :
               ( /\ AddCommentBegin(w, id, data)
                 /\ Exists(id)
                 /\ Strip(Get(data, "comment", <<>>)) # <<>> )
               => IF \/ User(data) = store[id].createdBy
                     \/ User(data) \in MANAGERS
                     \/ User(data) \in ADMINS
                  THEN pc'[w] = "a_write" /\ loc'[w].user = User(data)
                  ELSE Answered(w, "Forbidden") /\ store' = store
         /\ \A id \in Ids :
               (Exists(id) /\ store'[id] # NoRecord
                  /\ Len(store'[id].comments) > Len(store[id].comments))
               => \E v \in Workers :
                     /\ Writes(v, "a_write")
                     /\ loc[v].id = id
                     /\ \/ loc[v].user = store[id].createdBy
                        \/ loc[v].user \in MANAGERS
                        \/ loc[v].user \in ADMINS
      ]_vars

C7_Witness ==
    /\ pc[1] = "respond"
    /\ loc[1].op = "add_comment"
    /\ loc[1].id = 1
    /\ loc[1].user = U1
    /\ resp[1].status = "Forbidden"
    /\ Exists(1)
    /\ store[1].createdBy = Admin
    /\ Len(store[1].comments) = 1
    /\ store[1].comments[1].userId = Manager

----------------------------------------------------------------------------
(* C8: a successful add-comment followed by get-by-id shows the new comment
   as the last element of comments, the earlier ones unchanged and in their
   order.  The original statement has lastActivity strictly greater than
   before the add. *)
AddCommentAppends(w) ==
    /\ Writes(w, "a_write")
          => /\ Exists(loc[w].id)
             /\ LET old == store[loc[w].id].comments
                    new == store'[loc[w].id].comments
                IN /\ Len(new) = Len(old) + 1
                   /\ SubSeq(new, 1, Len(old)) = old
                   /\ new[Len(new)].userId = loc[w].user
                   /\ new[Len(new)].comment = loc[w].entry.comment
    /\ \A id \in Ids :
          (GetRequest(w, id) /\ Exists(id))
          => /\ Answered(w, "OK")
             /\ resp'[w].docs = <<[id |-> id, doc |-> store[id]]>>

C8_Original ==
    [][\A w \in Workers :
         /\ AddCommentAppends(w)
         /\ Writes(w, "a_write")
               => store'[loc[w].id].lastActivity > store[loc[w].id].lastActivity
      ]_vars

(* C8 as amended: lastActivity is the time the handler read, which is not
   less than the value before the add, and equal to it when the clock has
   not advanced since. *)
C8_AddCommentAppendsLast ==
    [][\A w \in Workers :
         /\ AddCommentAppends(w)
         /\ Writes(w, "a_write")
               => /\ store'[loc[w].id].lastActivity >= store[loc[w].id].lastActivity
                  /\ store'[loc[w].id].lastActivity \in loc[w].t0..now
      ]_vars

C8_Witness ==
    /\ pc[1] = "notify"
    /\ loc[1].op = "add_comment"
    /\ Exists(1)
    /\ Len(store[1].comments) = 2
    /\ store[1].comments[1].userId # store[1].comments[2].userId

----------------------------------------------------------------------------
(* C9: list-requests returns every stored record, ordered by lastActivity
   descending.  The original statement has the record that had the oldest
   lastActivity returned first by the next list-requests after a successful
   add-comment on it. *)
ListIsSorted(w) ==
    (pc[w] = "respond" /\ loc[w].op = "list")
    => LET d == resp[w].docs
       IN /\ Len(d) = Cardinality(ExistingIds)
          /\ { d[j].id : j \in DOMAIN d } = ExistingIds
          /\ \A j \in DOMAIN d : d[j].doc = store[d[j].id]
          /\ \A j, k \in DOMAIN d :
                j < k => d[j].doc.lastActivity >= d[k].doc.lastActivity

C9_Original ==
    \A w \in Workers :
       /\ ListIsSorted(w)
       /\ (pc[w] = "respond" /\ loc[w].op = "list" /\ bumped # 0)
             => resp[w].docs[1].id = bumped

(* C9 as amended: that record is returned first when the lastActivity the add
   gave it is strictly greater than every other record's; when it equals
   another record's, either of the two may come first. *)
C9_ListSortedByActivity ==
    \A w \in Workers :
       /\ ListIsSorted(w)
       /\ ( /\ pc[w] = "respond" /\ loc[w].op = "list" /\ bumped # 0
            /\ \A j \in ExistingIds \ {bumped} :
                  store[bumped].lastActivity > store[j].lastActivity )
             => resp[w].docs[1].id = bumped

C9_Witness ==
    /\ pc[1] = "respond"
    /\ loc[1].op = "list"
    /\ bumped = 1
    /\ Len(resp[1].docs) = 2
    /\ resp[1].docs[1].id = 1
    /\ resp[1].docs[1].doc.lastActivity > resp[1].docs[2].doc.lastActivity

----------------------------------------------------------------------------
(* C10: create with a non-empty gameName succeeds, and the stored record has
   comments = [] and lastActivity equal to timestamp. *)
C10_CreateStoresEqualTimes ==
    [][\A w \in Workers :
         /\ \A data \in SeqInputs.creates :
               ( /\ CreateRequestBegin(w, data, SeqInputs.cap)
                 /\ Get(data, "gameName", "") # "" )
               => pc'[w] = "c_insert"
         /\ Writes(w, "c_insert")
               => /\ store'[nextId] # NoRecord
                  /\ store'[nextId].comments = <<>>
                  /\ store'[nextId].lastActivity = store'[nextId].timestamp
         /\ (pc[w] = "notify" /\ loc[w].op = "create" /\ pc'[w] = "respond")
               => resp'[w].status = "Created"
      ]_vars

----------------------------------------------------------------------------
(* C11: an edit that is applied changes, besides timestamp and lastActivity,
   only the metadata fields its patch supplies: every other metadata field
   keeps the value stored at the moment of the write, whatever other edits
   were interleaved with it; createdBy and comments are never changed. *)
MetaFields == {"gameName", "latestVersion", "details", "iconUrl"}

(* The values the edits of the concurrent specification supply for field k *)
PatchValues(k) == { p[k] : p \in { q \in ConcInputs.patches : k \in DOMAIN q } }

C11_EditChangesOnlyPatchFields ==
    [][\A w \in Workers :
         (Writes(w, "u_write") /\ Exists(loc[w].id))
         => LET old == store[loc[w].id]
                new == store'[loc[w].id]
            IN /\ \A k \in MetaFields : new[k] = old[k] \/ new[k] \in PatchValues(k)
               /\ new.createdBy = old.createdBy
               /\ new.comments = old.comments
      ]_vars

----------------------------------------------------------------------------
(* C12: an operation addressing a record by an id that is not a well-formed
   identifier is answered NotFound, as it is for a well-formed id that
   matches no record; never with a server error, never with success. *)
C12_MalformedIdIsNotFound ==
    [][\A w \in Workers :
         /\ GetRequest(w, Malformed) => Answered(w, "NotFound")
         /\ \A data \in SeqInputs.patches :
               UpdateRequestBegin(w, Malformed, data) => Answered(w, "NotFound")
         /\ \A data \in SeqInputs.actors :
               DeleteRequestBegin(w, Malformed, data) => Answered(w, "NotFound")
         /\ \A data \in SeqInputs.comments :
               ( /\ AddCommentBegin(w, Malformed, data)
                 /\ Strip(Get(data, "comment", <<>>)) # <<>> )
               => Answered(w, "NotFound")
         /\ \A index \in SeqInputs.indexes, data \in SeqInputs.actors :
               DeleteCommentBegin(w, Malformed, index, data) => Answered(w, "NotFound")
      ]_vars

----------------------------------------------------------------------------
(* C13: once create, add-comment or delete-comment has written, the notifier
   changes nothing: whether it has no target, the POST returns or the POST
   raises, the store stays as the write left it, the caller gets the same
   success answer (Created with the new id for create, OK otherwise), and
   the POST is sent at most once. *)
SuccessAnswer(l) ==
    IF l.op = "create"
    THEN [status |-> "Created", id |-> l.id, docs |-> <<>>]
    ELSE [status |-> "OK", id |-> 0, docs |-> <<>>]

C13_NotifierOutcomeIgnored ==
    [][\A w \in Workers :
         /\ (pc[w] \in {"notify", "post"} /\ pc'[w] # pc[w])
               => /\ store' = store
                  /\ nextId' = nextId
                  /\ loc[w].op \in {"create", "add_comment", "delete_comment"}
                  /\ pc'[w] = IF pc[w] = "notify" /\ webhook THEN "post" ELSE "respond"
                  /\ pc'[w] = "respond" => resp'[w] = SuccessAnswer(loc[w])
         /\ (pc'[w] = "notify" /\ pc[w] # "notify")
               => pc[w] \in {"c_insert", "a_write", "x_write"}
      ]_vars

C13_Witness ==
    /\ webhook
    /\ pc[1] = "respond"
    /\ loc[1].op = "create"
    /\ resp[1].status = "Created"
    /\ resp[1].id = 1
    /\ Exists(1)
    /\ store[1].comments = <<>>

----------------------------------------------------------------------------
(* C14: every create, add-comment or delete-comment whose write has been
   applied eventually returns its success answer, also when the webhook's
   server never answers the POST. *)
C14_MutationEventuallyAnswered ==
    \A w \in Workers :
       (pc[w] = "notify") ~> (pc[w] = "respond" /\ resp[w].status \in {"Created", "OK"})

----------------------------------------------------------------------------
(* C15: the removal of a delete-comment acts on the ledger its index was
   validated against: at the moment of the write the ledger still has, at
   that index, the comment whose author was read. *)
C15_RemovalOnValidatedLedger ==
    [][\A w \in Workers :
         (Writes(w, "x_write") /\ Exists(loc[w].id))
         => LET comments == store[loc[w].id].comments
            IN /\ loc[w].index < Len(comments)
               /\ comments[loc[w].index + 1] = loc[w].entry
      ]_vars

----------------------------------------------------------------------------
(* C16: when several failures apply, the one reported follows the order
   validate, load, authorize.  Add-comment with a text that is empty after
   trimming is answered ValidationError whatever the id and the actor; an
   operation on a well-formed id with no record is answered NotFound whatever
   the actor; delete-comment on an existing record with an index out of range
   is answered OutOfRange whatever the actor, and Forbidden is answered only
   for an index in range. *)
C16_FailureOrder ==
    [][\A w \in Workers :
         (pc[w] = "idle" /\ pc'[w] # "idle")
         => /\ \A id \in SeqInputs.ids, data \in SeqInputs.comments :
                  ( /\ loc'[w].id = id
                    /\ Strip(Get(data, "comment", <<>>)) = <<>>
                    /\ AddCommentBegin(w, id, data) )
                  => Answered(w, "ValidationError")
            /\ \A id \in Ids :
                  (loc'[w].id = id /\ ~Exists(id))
                  => /\ GetRequest(w, id) => Answered(w, "NotFound")
                     /\ \A data \in SeqInputs.patches :
                           UpdateRequestBegin(w, id, data) => Answered(w, "NotFound")
                     /\ \A data \in SeqInputs.actors :
                           DeleteRequestBegin(w, id, data) => Answered(w, "NotFound")
                     /\ \A data \in SeqInputs.comments :
                           ( /\ Strip(Get(data, "comment", <<>>)) # <<>>
                             /\ AddCommentBegin(w, id, data) )
                           => Answered(w, "NotFound")
                     /\ \A index \in SeqInputs.indexes, data \in SeqInputs.actors :
                           DeleteCommentBegin(w, id, index, data)
                           => Answered(w, "NotFound")
            /\ \A id \in Ids, index \in SeqInputs.indexes, data \in SeqInputs.actors :
                  ( /\ loc'[w].id = id
                    /\ loc'[w].index = index
                    /\ Exists(id)
                    /\ DeleteCommentBegin(w, id, index, data) )
                  => /\ (index < 0 \/ index >= Len(store[id].comments))
                           => Answered(w, "OutOfRange")
                     /\ Answered(w, "Forbidden")
                           => (index >= 0 /\ index < Len(store[id].comments))
      ]_vars

(* An add-comment with a blank text by an actor who may not comment on the
   record, answered ValidationError *)
C16_Witness ==
    /\ pc[1] = "respond"
    /\ loc[1].op = "add_comment"
    /\ loc[1].id = 1
    /\ loc[1].user = U1
    /\ resp[1].status = "ValidationError"
    /\ Exists(1)
    /\ store[1].createdBy = Admin
    /\ Len(store[1].comments) = 1

(* A delete-comment with an index out of range by an actor who wrote none of
   the comments, answered OutOfRange *)
C16_WitnessOutOfRange ==
    /\ pc[1] = "respond"
    /\ loc[1].op = "delete_comment"
    /\ loc[1].index = 1
    /\ loc[1].user = Manager
    /\ resp[1].status = "OutOfRange"
    /\ Exists(1)
    /\ Len(store[1].comments) = 1
    /\ store[1].comments[1].userId = U1

----------------------------------------------------------------------------
(* C17: in every reachable state every stored record has a gameName that is
   not empty, and every stored comment a text that is not empty after
   trimming. *)
C17_StoredTextsNonEmpty ==
    \A id \in ExistingIds :
       /\ store[id].gameName # ""
       /\ \A j \in DOMAIN store[id].comments :
             Strip(store[id].comments[j].comment) # <<>>

(* C17, the part the code keeps: stored comment texts are trimmed and not
   empty *)
C17_StoredCommentsNonEmpty ==
    \A id \in ExistingIds :
       \A j \in DOMAIN store[id].comments :
          /\ store[id].comments[j].comment # <<>>
          /\ Strip(store[id].comments[j].comment) = store[id].comments[j].comment

----------------------------------------------------------------------------
(* C18: an edit, add-comment or delete-comment that answers success has
   applied its write to a record that exists at the moment of the write, and
   a delete-comment has removed a comment: no write that is followed by the
   success answer matches no record or removes nothing. *)
C18_SuccessMeansApplied ==
    [][\A w \in Workers :
         /\ (Writes(w, "u_write") \/ Writes(w, "a_write") \/ Writes(w, "x_write"))
               => Exists(loc[w].id)
         /\ Writes(w, "x_write")
               => /\ Exists(loc[w].id)
                  /\ Len(store'[loc[w].id].comments) < Len(store[loc[w].id].comments)
      ]_vars

----------------------------------------------------------------------------
(* C19: under any interleaving of add-comment and delete-comment, every
   comment a delete-comment takes out of the stored ledger was written by the
   acting user, unless the acting user is an admin; an index that has gone
   stale never makes a non-admin remove another author's comment. *)
Count(s, e) == Cardinality({ j \in DOMAIN s : s[j] = e })

C19_StaleIndexRemovesOwnOnly ==
    [][\A id \in Ids :
         (Exists(id) /\ store'[id] # NoRecord)
         => \A j \in DOMAIN store[id].comments :
               LET e == store[id].comments[j]
               IN Count(store'[id].comments, e) < Count(store[id].comments, e)
                  => \E v \in Workers :
                        /\ Writes(v, "x_write")
                        /\ loc[v].id = id
                        /\ (e.userId = loc[v].user \/ loc[v].user \in ADMINS)
      ]_vars

(* u1's delete-comment has written with a stale index: it was validated at
   time 0 on a comment by u1, and written, with the time read then, when the
   ledger held two later comments by the admin, which are both still there *)
C19_Witness ==
    /\ pc[1] = "notify"
    /\ loc[1].op = "delete_comment"
    /\ loc[1].user = U1
    /\ loc[1].index = 0
    /\ Exists(1)
    /\ store[1].lastActivity = 0
    /\ Len(store[1].comments) = 2
    /\ \A j \in 1..2 : /\ store[1].comments[j].userId = Admin
                       /\ store[1].comments[j].timestamp = 1

====
